---- MODULE Spec2Model ----
(***************************************************************************)
(* The MRT map viewer of TravelMate (src/js/app.js, class                  *)
(* MRTMapInteraction) as a state machine: the page holds (or lacks) the    *)
(* elements the constructor looks up, the application constructs the       *)
(* viewer once, and afterwards the browser delivers events to the          *)
(* listeners init() registered, one handler run per step (single UI       *)
(* thread).                                                                *)
(*                                                                         *)
(* The scale is kept in tenths (1.0 is 10, the 0.2 step is 2, the bounds   *)
(* 0.5 and 3.0 are 5 and 30): the values the code reaches differ from      *)
(* these by floating rounding only, and Math.min / Math.max clamp to the   *)
(* exact bounds.  Pointer coordinates and translations are integers        *)
(* (CSS pixels).                                                           *)
(*                                                                         *)
(* The embedded graphic is a sequence of nodes (tag, id, title, text       *)
(* content, r attribute, parent); a string is the sequence of its          *)
(* characters, and a radius is an exact fraction, so that * 1.5 and / 1.5  *)
(* are computed as the code computes them up to floating rounding.  The    *)
(* browser dispatches the hover events of one pointer motion in a row      *)
(* (mouseleave innermost first, mouseenter outermost first, then the       *)
(* bubbling mousemove); the model queues the listener runs of a motion in  *)
(* pending and runs one per step before the next motion.                   *)
(*                                                                         *)
(* Three specifications share the state: Spec is the viewer under load,    *)
(* control, wheel and pointer events on the container; SpecStations is the *)
(* station listeners under pointer events inside the graphic, over a       *)
(* family of graphics; SpecFullscreen is the fullscreen button and the     *)
(* host's full-screen state; SpecUtilities is one debounce wrapper (the     *)
(* search input's) and one throttle wrapper (a scroll handler's) over the  *)
(* host's timers.  Time is counted in units of 100 ms; a timer fires at    *)
(* its due time or later, never earlier.                                   *)
(***************************************************************************)
EXTENDS Integers, FiniteSets, Sequences, TLC

\* ------------------------------------------------------------ constants
\* this.scale = 1, this.minScale = 0.5, this.maxScale = 3, in tenths
initialScale == 10
minScale == 5
maxScale == 30
\* the 0.2 of zoomIn / zoomOut, in tenths
zoomStep == 2

\* debounce(..., 300) of the search input and throttle(..., 100) of the
\* scroll handlers, in units of 100 ms
searchWait == 3
scrollLimit == 1

\* ------------------------------------------------------------ bounds
\* the environment keeps the panned translate within MaxPan pointer steps of
\* the origin on each axis
MaxPan == 1
\* load events the embedded graphic fires
MaxLoads == 1
\* pieces a node's id is built from
MaxTokens == 3
\* the longest wait / limit a wrapper is made with, the time the clock
\* reaches, the timers the host is asked for
MaxDelay == 3
MaxTime == 5
MaxTimers == 3

\* pointer positions (clientX, clientY) the events carry
PointerXs == {100, 150}
PointerYs == {100, 120}
TranslateXs == {50 * k : k \in -MaxPan..MaxPan}
TranslateYs == {20 * k : k \in -MaxPan..MaxPan}
DeltaYs == {-1, 0, 1}
ContentDocuments == {"document", "null", "throws"}

Min(a, b) == IF a < b THEN a ELSE b
Max(a, b) == IF a > b THEN a ELSE b

\* the zoom / reset controls, and the pages modelled: all of them or none
ControlIds == {"zoom-in", "zoom-out", "reset-zoom"}
ControlSets == {{}, ControlIds}

\* ------------------------------------------------------------ strings
\* a || b on attribute strings: null and '' are both falsy
Or(a, b) == IF a # <<>> THEN a ELSE b

\* .replace(/_/g, ' ')
replaceUnderscores(s) == [i \in 1..Len(s) |-> IF s[i] = "_" THEN " " ELSE s[i]]

\* the i flag, on the letters the pattern holds
foldCase(c) ==
    CASE c = "S" -> "s" [] c = "T" -> "t" [] c = "A" -> "a"
      [] c = "I" -> "i" [] c = "O" -> "o" [] c = "N" -> "n"
      [] OTHER -> c

stationWord == <<"s", "t", "a", "t", "i", "o", "n">>

\* fault variant of matchesAt: the i flag is missing
matchesAt_caseSensitive(s, i) ==
    /\ i + Len(stationWord) - 1 <= Len(s)
    /\ \A k \in 1..Len(stationWord) : s[i + k - 1] = stationWord[k]

\* /station/i matches s at position i
matchesAt(s, i) ==
    /\ i + Len(stationWord) - 1 <= Len(s)
    /\ \A k \in 1..Len(stationWord) : foldCase(s[i + k - 1]) = stationWord[k]

\* .replace(/station/gi, ''): one pass, left to right, resuming after each match
RECURSIVE removeFrom(_, _)
removeFrom(s, i) ==
    IF i > Len(s) THEN <<>>
    ELSE IF matchesAt(s, i) THEN removeFrom(s, i + Len(stationWord))
    ELSE <<s[i]>> \o removeFrom(s, i + 1)

removeStation(s) == removeFrom(s, 1)

\* .trim()
Whitespace == {" ", "\t", "\n"}
RECURSIVE trimStart(_)
trimStart(s) == IF s # <<>> /\ Head(s) \in Whitespace THEN trimStart(Tail(s)) ELSE s
RECURSIVE trimEnd(_)
trimEnd(s) ==
    IF s # <<>> /\ s[Len(s)] \in Whitespace THEN trimEnd(SubSeq(s, 1, Len(s) - 1)) ELSE s
trim(s) == trimEnd(trimStart(s))

\* the fallback literals of showStationTooltip and handleStationClick
StationLiteral == <<"S", "t", "a", "t", "i", "o", "n">>
UnknownStationLiteral == <<"U", "n", "k", "n", "o", "w", "n", " ">> \o StationLiteral

\* showStationTooltip: the text it writes into the tooltip for a node
tooltipName(node) ==
    trim(removeStation(replaceUnderscores(
        Or(node.id, Or(node.title, Or(node.text, StationLiteral))))))

\* handleStationClick: the name it logs and puts in the alert
clickName(node) ==
    Or(node.id, Or(node.title, Or(node.text, UnknownStationLiteral)))

\* s contains p, case-sensitively: the [id*="p"] attribute selector
Contains(s, p) ==
    \E i \in 1..(Len(s) - Len(p) + 1) : SubSeq(s, i, i + Len(p) - 1) = p

\* querySelectorAll('circle, text, g[id*="station"], g[id*="Station"]')
matchesSelector(node) ==
    \/ node.tag = "circle"
    \/ node.tag = "text"
    \/ node.tag = "g" /\ (Contains(node.id, stationWord) \/ Contains(node.id, StationLiteral))

\* ------------------------------------------------------------ radii
RECURSIVE GCD(_, _)
GCD(a, b) == IF b = 0 THEN a ELSE GCD(b, a % b)
Fraction(n, d) == [num |-> n \div GCD(n, d), den |-> d \div GCD(n, d)]
\* parseFloat(getAttribute('r')) * 1.5 and / 1.5
times15(q) == Fraction(q.num * 3, q.den * 2)
div15(q) == Fraction(q.num * 2, q.den * 3)

\* ------------------------------------------------------------ graphics
Node(tag, id, title, text, r, parent) ==
    [tag |-> tag, id |-> id, title |-> title, text |-> text, r |-> r, parent |-> parent]
NoRadius == Fraction(0, 1)

sRafflesPlace == <<"R", "a", "f", "f", "l", "e", "s", "_", "P", "l", "a", "c", "e">>
sBishan == <<"B", "i", "s", "h", "a", "n">>
sDepot == <<"d", "e", "p", "o", "t">>
sSTATION == <<"S", "T", "A", "T", "I", "O", "N">>
sMixed == <<"s", "T", "a", "T", "i", "o", "n">>

\* a map: a station group holding a marker and a label, groups whose ids spell
\* station in other cases, a group that is no station, a marker of its own
MrtMap ==
    << Node("g", sBishan \o <<"_">> \o StationLiteral, <<>>, sBishan, NoRadius, 0),
       Node("circle", <<>>, <<>>, <<>>, Fraction(5, 1), 1),
       Node("g", sSTATION \o <<"_">> \o sBishan, <<>>, <<>>, NoRadius, 0),
       Node("g", sMixed, <<>>, <<>>, NoRadius, 0),
       Node("g", sDepot, <<>>, <<>>, NoRadius, 0),
       Node("circle", sRafflesPlace \o <<"_">> \o stationWord, <<>>, <<>>, Fraction(5, 1), 0) >>

\* a graphic of one marker without a name
PlainMarker == <<Node("circle", <<>>, <<>>, <<>>, Fraction(5, 1), 0)>>

\* names built from at most k of these pieces
NamePieces == {sRafflesPlace, <<"_">>, <<" ">>, StationLiteral, sSTATION, sMixed}
RECURSIVE Names(_)
Names(k) ==
    IF k = 0 THEN {<<>>}
    ELSE Names(k - 1) \cup {n \o t : n \in Names(k - 1), t \in NamePieces}

\* graphics of one node: a marker with an id, or a label with a title and a text
OneNodeDocuments ==
    {<<Node("circle", id, <<>>, <<>>, Fraction(5, 1), 0)>> : id \in Names(MaxTokens)}
    \cup {<<Node("text", <<>>, t, x, NoRadius, 0)>> : t \in Names(1), x \in Names(1)}
Documents == {MrtMap} \cup OneNodeDocuments

\* the pointer positions station events carry, and the container's bounding rect
StationPoints == {[x |-> 100, y |-> 100], [x |-> 150, y |-> 120]}
WrapperRect == [left |-> 20, top |-> 40]
NoTooltip == [visible |-> FALSE, text |-> <<>>, left |-> 0, top |-> 0]
NoAlert == [node |-> 0, text |-> <<>>]

VARIABLES
    mapWrapper,     \* getElementById('map-wrapper') found an element
    mapObject,      \* getElementById('mrt-map-svg') found an element
    controls,       \* the ids among ControlIds the page holds
    constructed,    \* new MRTMapInteraction() has run
    listeners,      \* the event listeners init() registered
    scale,          \* this.scale, in tenths
    translateX,     \* this.translateX
    translateY,     \* this.translateY
    isPanning,      \* this.isPanning
    startX,         \* this.startX (the anchor)
    startY,         \* this.startY
    transform,      \* mapObject.style.transform, NoTransform before the first update
    grabbing,       \* mapWrapper.classList contains 'grabbing'
    stationPasses,  \* runs of setupSVGInteraction that attached station listeners
    setupRuns,      \* history: runs of setupSVGInteraction
    loads,          \* history: load events of the graphic element
    unhandled,      \* history: an event fired on an element nothing listens on
    lastCall,       \* history: the method the most recent handler run invoked
    lastGesture,    \* history: the most recent begin/end event a handler received
    gesture,        \* history: pointer and translate at the startPan of the
                    \* gesture in progress, NoGesture when none is
    threw,          \* history: a handler let an exception escape
    tooltipEl,      \* getElementById('station-tooltip') found an element
    svgDoc,         \* the nodes of the embedded graphic's document
    wired,          \* per node, the sets of station listeners attached to it
    target,         \* the innermost node under the pointer, 0 for none
    pending,        \* listener runs of the current pointer motion, not yet run
    radius,         \* per node, its r attribute
    fill,           \* per node, its style.fill
    tooltip,        \* the tooltip: 'visible' class, textContent, style.left / top
    labelled,       \* history: the node showStationTooltip last wrote a label for
    notified,       \* history: the node and name of the last alert
    fsElement,      \* document.fullscreenElement is not null
    fsPending,      \* the full-screen request the host has not answered yet
    fsClass,        \* mapWrapper.classList contains 'fullscreen'
    fsIcon,         \* the icon class of the fullscreen button, fa-expand or fa-compress
    fsRefused,      \* history: the host refused a full-screen request
    host,           \* the clock, the timers setTimeout holds, the next timer id
    debounced,      \* the closure of debounce: wait, timeout; and its history
    throttled       \* the closure of throttle: limit, inThrottle; and its history

page == <<mapWrapper, mapObject, controls>>
viewer == <<scale, translateX, translateY, isPanning, startX, startY,
            transform, grabbing, threw>>
fields == <<scale, translateX, translateY, isPanning, startX, startY,
            transform, grabbing>>
stations == <<stationPasses, setupRuns, wired>>
graphic == <<tooltipEl, svgDoc>>
hover == <<target, pending, radius, fill, tooltip, labelled, notified>>
fullscreen == <<fsElement, fsPending, fsClass, fsIcon, fsRefused>>
utilities == <<host, debounced, throttled>>
history == <<lastGesture, gesture>>
calls == <<lastCall, unhandled>>
vars == <<mapWrapper, mapObject, controls, constructed, listeners, scale,
          translateX, translateY, isPanning, startX, startY, transform,
          grabbing, stationPasses, setupRuns, loads, unhandled, lastCall, lastGesture,
          gesture, threw, tooltipEl, svgDoc, wired, target, pending, radius, fill,
          tooltip, labelled, notified, fsElement, fsPending, fsClass, fsIcon,
          fsRefused, host, debounced, throttled>>

NoTransform == [set |-> FALSE, translateX |-> 0, translateY |-> 0, scale |-> 0]
NoGesture == [x0 |-> 0, y0 |-> 0, tx0 |-> 0, ty0 |-> 0]

\* the state before construction, of a page whose graphic holds document doc
Page(doc) ==
    /\ svgDoc = doc
    /\ wired = [n \in DOMAIN doc |-> 0]
    /\ target = 0
    /\ pending = <<>>
    /\ radius = [n \in DOMAIN doc |-> doc[n].r]
    /\ fill = [n \in DOMAIN doc |-> ""]
    /\ tooltip = NoTooltip
    /\ labelled = 0
    /\ notified = NoAlert
    /\ fsElement = FALSE
    /\ fsPending = "none"
    /\ fsClass = FALSE
    /\ fsIcon = "fa-expand"
    /\ fsRefused = FALSE
    /\ constructed = FALSE
    /\ listeners = {}
    /\ scale = initialScale
    /\ translateX = 0
    /\ translateY = 0
    /\ isPanning = FALSE
    /\ startX = 0
    /\ startY = 0
    /\ transform = NoTransform
    /\ grabbing = FALSE
    /\ stationPasses = 0
    /\ setupRuns = 0
    /\ loads = 0
    /\ unhandled = FALSE
    /\ lastCall = "none"
    /\ lastGesture = "none"
    /\ gesture = NoGesture
    /\ threw = FALSE

\* the closures debounce(func, wait) and throttle(func, limit) return, before
\* their first call: timeout and inThrottle are undefined, no timer is set.
\* History fields: whether, when and with what the wrapper was last called,
\* the calls since func last ran (burst), the runs of func since the last
\* call (debounce) or in all (throttle), when and with what func last ran,
\* whether a call was dropped since the last run.
Utilities(wait, limit) ==
    /\ host = [clock |-> 0, timers |-> {}, nextId |-> 1]
    /\ debounced = [wait |-> wait, timeout |-> 0,
                    called |-> FALSE, calledAt |-> 0, calledWith |-> "", burst |-> 0,
                    runs |-> 0, ranAt |-> 0, ranWith |-> ""]
    /\ throttled = [limit |-> limit, inThrottle |-> FALSE,
                    runs |-> 0, ranAt |-> 0, dropped |-> FALSE]

\* pages that hold or lack the container, the graphic and the controls; the
\* graphic, where there is one, holds one marker
Init ==
    /\ mapWrapper \in BOOLEAN
    /\ mapObject \in BOOLEAN
    /\ controls \in ControlSets
    /\ tooltipEl = TRUE
    /\ Page(PlainMarker)
    /\ Utilities(searchWait, scrollLimit)

\* getElementById('fullscreen') found an element: on the pages modelled the
\* fullscreen button comes with the other controls
fullscreenBtn == controls # {}

\* ------------------------------------------------------------ methods

\* fault variant of updateTransform: the string lacks the scale() part
updateTransform_translateOnly(tx, ty, s) ==
    transform' = IF mapObject
                 THEN [set |-> TRUE, translateX |-> tx, translateY |-> ty,
                       scale |-> initialScale]
                 ELSE transform

\* updateTransform(): the string built from the fields as they are after the
\* caller's assignments
updateTransform(tx, ty, s) ==
    transform' = IF mapObject
                 THEN [set |-> TRUE, translateX |-> tx, translateY |-> ty, scale |-> s]
                 ELSE transform

\* fault variant of zoomInScale: the Math.min clamp is missing
zoomInScale_unclamped(s) == IF s < maxScale THEN s + zoomStep ELSE s

\* the scale zoomIn() leaves: one step up, clamped, unless already at maxScale
zoomInScale(s) == IF s < maxScale THEN Min(s + zoomStep, maxScale) ELSE s

\* fault variant of zoomIn: the zoom recentres the view
zoomIn_recentres ==
    /\ scale' = zoomInScale(scale)
    /\ translateX' = 0
    /\ translateY' = 0
    /\ IF scale < maxScale
       THEN updateTransform(translateX', translateY', scale')
       ELSE UNCHANGED transform
    /\ UNCHANGED <<isPanning, startX, startY, grabbing, threw>>

zoomIn ==
    /\ scale' = zoomInScale(scale)
    /\ IF scale < maxScale
       THEN updateTransform(translateX, translateY, scale')
       ELSE UNCHANGED transform
    /\ UNCHANGED <<translateX, translateY, isPanning, startX, startY, grabbing, threw>>

\* fault variants of zoomOutScale: the Math.max clamp is missing / the step is 0.1
zoomOutScale_unclamped(s) == IF s > minScale THEN s - zoomStep ELSE s
zoomOutScale_halfStep(s) == IF s > minScale THEN Max(s - 1, minScale) ELSE s

\* the scale zoomOut() leaves: one step down, clamped, unless already at minScale
zoomOutScale(s) == IF s > minScale THEN Max(s - zoomStep, minScale) ELSE s

zoomOut ==
    /\ scale' = zoomOutScale(scale)
    /\ IF scale > minScale
       THEN updateTransform(translateX, translateY, scale')
       ELSE UNCHANGED transform
    /\ UNCHANGED <<translateX, translateY, isPanning, startX, startY, grabbing, threw>>

\* fault variant of resetZoom: the translate is not reset
resetZoom_scaleOnly ==
    /\ scale' = initialScale
    /\ updateTransform(translateX, translateY, scale')
    /\ UNCHANGED <<translateX, translateY, isPanning, startX, startY, grabbing, threw>>

resetZoom ==
    /\ scale' = initialScale
    /\ translateX' = 0
    /\ translateY' = 0
    /\ updateTransform(translateX', translateY', scale')
    /\ UNCHANGED <<isPanning, startX, startY, grabbing, threw>>

\* fault variant of startPan: the anchor is the pointer, not pointer - translate
startPan_ignoresTranslate(x, y) ==
    /\ isPanning' = TRUE
    /\ startX' = x
    /\ startY' = y
    /\ IF mapWrapper
       THEN grabbing' = TRUE /\ UNCHANGED threw
       ELSE threw' = TRUE /\ UNCHANGED grabbing
    /\ UNCHANGED <<scale, translateX, translateY, transform>>

\* startPan(event): the classList access on a missing wrapper throws after the
\* three assignments
startPan(x, y) ==
    /\ isPanning' = TRUE
    /\ startX' = x - translateX
    /\ startY' = y - translateY
    /\ IF mapWrapper
       THEN grabbing' = TRUE /\ UNCHANGED threw
       ELSE threw' = TRUE /\ UNCHANGED grabbing
    /\ UNCHANGED <<scale, translateX, translateY, transform>>

\* fault variant of pan: the isPanning test is missing
pan_unguarded(x, y) ==
    /\ translateX' = x - startX
    /\ translateY' = y - startY
    /\ updateTransform(translateX', translateY', scale)
    /\ UNCHANGED <<scale, isPanning, startX, startY, grabbing, threw>>

pan(x, y) ==
    /\ IF ~isPanning
       THEN UNCHANGED <<translateX, translateY, transform>>
       ELSE /\ translateX' = x - startX
            /\ translateY' = y - startY
            /\ updateTransform(translateX', translateY', scale)
    /\ UNCHANGED <<scale, isPanning, startX, startY, grabbing, threw>>

\* fault variants of endPan: isPanning is not cleared / classList.toggle for remove
endPan_keepsPanning ==
    /\ IF mapWrapper
       THEN grabbing' = FALSE /\ UNCHANGED threw
       ELSE threw' = TRUE /\ UNCHANGED grabbing
    /\ UNCHANGED <<scale, translateX, translateY, isPanning, startX, startY, transform>>

endPan_togglesGrabbing ==
    /\ isPanning' = FALSE
    /\ IF mapWrapper
       THEN grabbing' = ~grabbing /\ UNCHANGED threw
       ELSE threw' = TRUE /\ UNCHANGED grabbing
    /\ UNCHANGED <<scale, translateX, translateY, startX, startY, transform>>

endPan ==
    /\ isPanning' = FALSE
    /\ IF mapWrapper
       THEN grabbing' = FALSE /\ UNCHANGED threw
       ELSE threw' = TRUE /\ UNCHANGED grabbing
    /\ UNCHANGED <<scale, translateX, translateY, startX, startY, transform>>

\* fault variant of setupSVGInteraction: the try / catch is missing
setupSVGInteraction_uncaught(doc) ==
    /\ setupRuns' = setupRuns + 1
    /\ stationPasses' = IF doc = "document" THEN stationPasses + 1 ELSE stationPasses
    /\ wired' = IF doc = "document"
                THEN [n \in DOMAIN svgDoc |->
                        IF matchesSelector(svgDoc[n]) THEN wired[n] + 1 ELSE wired[n]]
                ELSE wired
    /\ threw' = (threw \/ doc = "throws")

\* setupSVGInteraction(): contentDocument is a document, null, or its access
\* throws inside the try block; each node the selector matches gets one more
\* set of listeners
setupSVGInteraction(doc) ==
    /\ setupRuns' = setupRuns + 1
    /\ stationPasses' = IF doc = "document" THEN stationPasses + 1 ELSE stationPasses
    /\ wired' = IF doc = "document"
                THEN [n \in DOMAIN svgDoc |->
                        IF matchesSelector(svgDoc[n]) THEN wired[n] + 1 ELSE wired[n]]
                ELSE wired
    /\ UNCHANGED threw

\* updateTooltipPosition(event): the pointer relative to the container, 10px up
updateTooltipPosition(e) ==
    tooltip' = IF tooltipEl /\ tooltip.visible
               THEN [tooltip EXCEPT !.left = e.x - WrapperRect.left,
                                    !.top = e.y - WrapperRect.top - 10]
               ELSE tooltip

\* showStationTooltip(event, station)
showStationTooltip(e, n) ==
    IF ~tooltipEl
    THEN UNCHANGED <<tooltip, labelled>>
    ELSE /\ tooltip' = [visible |-> TRUE,
                        text |-> tooltipName(svgDoc[n]),
                        left |-> e.x - WrapperRect.left,
                        top |-> e.y - WrapperRect.top - 10]
         /\ labelled' = n

hideTooltip ==
    tooltip' = IF tooltipEl THEN [tooltip EXCEPT !.visible = FALSE] ELSE tooltip

\* handleStationClick(station): the alert, and the name it shows
handleStationClick(n) == notified' = [node |-> n, text |-> clickName(svgDoc[n])]

\* the four listeners setupSVGInteraction attaches to a station
mouseenterListener(e) ==
    /\ showStationTooltip(e, e.node)
    /\ IF svgDoc[e.node].tag = "circle"
       THEN /\ radius' = [radius EXCEPT ![e.node] = times15(@)]
            /\ fill' = [fill EXCEPT ![e.node] = "#B40000"]
       ELSE UNCHANGED <<radius, fill>>
    /\ UNCHANGED notified

mouseleaveListener(e) ==
    /\ hideTooltip
    /\ IF svgDoc[e.node].tag = "circle"
       THEN /\ radius' = [radius EXCEPT ![e.node] = div15(@)]
            /\ fill' = [fill EXCEPT ![e.node] = ""]
       ELSE UNCHANGED <<radius, fill>>
    /\ UNCHANGED <<labelled, notified>>

mousemoveListener(e) ==
    /\ updateTooltipPosition(e)
    /\ UNCHANGED <<radius, fill, labelled, notified>>

clickListener(e) ==
    /\ handleStationClick(e.node)
    /\ UNCHANGED <<radius, fill, tooltip, labelled>>

\* toggleFullscreen(): the request is answered by the host later;
\* classList.replace swaps the icon class only if the old one is there
toggleFullscreen ==
    /\ IF ~fsElement
       THEN /\ fsClass' = TRUE
            /\ fsPending' = "enter"
            /\ fsIcon' = IF fsIcon = "fa-expand" THEN "fa-compress" ELSE fsIcon
       ELSE /\ fsPending' = "exit"
            /\ fsClass' = FALSE
            /\ fsIcon' = IF fsIcon = "fa-compress" THEN "fa-expand" ELSE fsIcon
    /\ UNCHANGED <<fsElement, fsRefused>>

\* init(): the listeners it registers
ControlListeners ==
    {c \in ControlIds : c \in controls} \cup (IF fullscreenBtn THEN {"fullscreen"} ELSE {})
WrapperListeners == {"mousedown", "mousemove", "mouseup", "mouseleave",
                     "touchstart", "touchmove", "touchend", "wheel"}
\* fault variants of init: the missing-element return is absent / station setup
\* is run eagerly instead of on load
init_unguarded ==
    /\ listeners' = {"load"} \cup ControlListeners \cup WrapperListeners
    /\ UNCHANGED stations

init_eagerSetup ==
    /\ listeners' = IF ~mapWrapper \/ ~mapObject
                    THEN {}
                    ELSE {"load"} \cup ControlListeners \cup WrapperListeners
    /\ IF ~mapWrapper \/ ~mapObject
       THEN UNCHANGED stations
       ELSE setupSVGInteraction("document")

init ==
    /\ listeners' = IF ~mapWrapper \/ ~mapObject
                    THEN {}
                    ELSE {"load"} \cup ControlListeners \cup WrapperListeners
    /\ UNCHANGED stations

\* ------------------------------------------------------------ steps

\* a listener ran and invoked method m / the event found no listener
Handled(m) == lastCall' = m /\ UNCHANGED unhandled
Ignored == unhandled' = TRUE /\ UNCHANGED lastCall

\* new MRTMapInteraction(), once, from TravelMateApp.initializeComponents
Construct ==
    /\ ~constructed
    /\ constructed' = TRUE
    /\ scale' = initialScale
    /\ isPanning' = FALSE
    /\ startX' = 0
    /\ startY' = 0
    /\ translateX' = 0
    /\ translateY' = 0
    /\ init
    /\ UNCHANGED <<page, transform, grabbing, threw, loads, calls, history>>
    /\ UNCHANGED <<utilities, graphic, hover, fullscreen>>

\* the load event of the embedded graphic; before the viewer is constructed
\* nothing listens
Load(doc) ==
    /\ mapObject
    /\ loads < MaxLoads
    /\ loads' = loads + 1
    /\ IF "load" \in listeners
       THEN setupSVGInteraction(doc) /\ Handled("setupSVGInteraction")
       ELSE /\ UNCHANGED <<stations, threw>>
            /\ IF constructed THEN Ignored ELSE UNCHANGED calls
    /\ UNCHANGED <<page, constructed, listeners, fields, history>>
    /\ UNCHANGED <<utilities, graphic, hover, fullscreen>>

\* a click on one of the zoom / reset controls
Click(c) ==
    /\ constructed
    /\ c \in controls
    /\ IF c \in listeners
       THEN CASE c = "zoom-in" -> zoomIn /\ Handled("zoomIn")
              [] c = "zoom-out" -> zoomOut /\ Handled("zoomOut")
              [] c = "reset-zoom" -> resetZoom /\ Handled("resetZoom")
       ELSE UNCHANGED viewer /\ Ignored
    /\ UNCHANGED <<page, constructed, listeners, stations, loads, history>>
    /\ UNCHANGED <<utilities, graphic, hover, fullscreen>>

Wheel(d) ==
    /\ constructed
    /\ mapWrapper
    /\ IF "wheel" \in listeners
       THEN IF d < 0 THEN zoomIn /\ Handled("zoomIn")
                     ELSE zoomOut /\ Handled("zoomOut")
       ELSE UNCHANGED viewer /\ Ignored
    /\ UNCHANGED <<page, constructed, listeners, stations, loads, history>>
    /\ UNCHANGED <<utilities, graphic, hover, fullscreen>>

\* mousedown, or touchstart with its primary touch point
PointerDown(t, x, y) ==
    /\ constructed
    /\ mapWrapper
    /\ IF t \in listeners
       THEN /\ startPan(x, y)
            /\ lastGesture' = "down"
            /\ gesture' = [x0 |-> x, y0 |-> y, tx0 |-> translateX, ty0 |-> translateY]
            /\ Handled("startPan")
       ELSE UNCHANGED <<viewer, history>> /\ Ignored
    /\ UNCHANGED <<page, constructed, listeners, stations, loads>>
    /\ UNCHANGED <<utilities, graphic, hover, fullscreen>>

\* mousemove, or touchmove with its primary touch point
PointerMove(t, x, y) ==
    /\ constructed
    /\ mapWrapper
    /\ isPanning => (x - startX \in TranslateXs /\ y - startY \in TranslateYs)
    /\ IF t \in listeners
       THEN pan(x, y) /\ Handled("pan")
       ELSE UNCHANGED viewer /\ Ignored
    /\ UNCHANGED <<page, constructed, listeners, stations, loads, history>>
    /\ UNCHANGED <<utilities, graphic, hover, fullscreen>>

\* mouseup, mouseleave or touchend
PointerEnd(t) ==
    /\ constructed
    /\ mapWrapper
    /\ IF t \in listeners
       THEN /\ endPan
            /\ lastGesture' = "end"
            /\ gesture' = NoGesture
            /\ Handled("endPan")
       ELSE UNCHANGED <<viewer, history>> /\ Ignored
    /\ UNCHANGED <<page, constructed, listeners, stations, loads>>
    /\ UNCHANGED <<utilities, graphic, hover, fullscreen>>

Next ==
    \/ Construct
    \/ \E doc \in ContentDocuments : Load(doc)
    \/ \E c \in ControlIds : Click(c)
    \/ \E d \in DeltaYs : Wheel(d)
    \/ \E t \in {"mousedown", "touchstart"}, x \in PointerXs, y \in PointerYs :
            PointerDown(t, x, y)
    \/ \E t \in {"mousemove", "touchmove"}, x \in PointerXs, y \in PointerYs :
            PointerMove(t, x, y)
    \/ \E t \in {"mouseup", "mouseleave", "touchend"} : PointerEnd(t)

Spec == Init /\ [][Next]_vars

\* ------------------------------------------------------------ station events

\* a node and its ancestors, innermost first
RECURSIVE Chain(_, _)
Chain(doc, n) == IF n = 0 THEN <<>> ELSE <<n>> \o Chain(doc, doc[n].parent)
Reverse(s) == [i \in 1..Len(s) |-> s[Len(s) + 1 - i]]
Members(s) == {s[i] : i \in DOMAIN s}

\* the nodes the pointer is over: the target and its ancestors
Over == Members(Chain(svgDoc, target))

\* the listener runs an event of this type causes on these nodes, in order: one
\* per set of listeners attached to the node
RECURSIVE Runs(_, _, _)
Runs(type, nodes, pt) ==
    IF nodes = <<>> THEN <<>>
    ELSE [k \in 1..wired[Head(nodes)] |->
            [type |-> type, node |-> Head(nodes), x |-> pt.x, y |-> pt.y]]
         \o Runs(type, Tail(nodes), pt)

\* the pointer moves to point pt over node b (0: over no node) of the rendered
\* graphic: mouseleave on the nodes it left, mouseenter on those it entered
\* (neither bubbles), then a mousemove that bubbles from b
StationPointer(b, pt) ==
    /\ mapObject
    /\ pending = <<>>
    /\ b \in 0..Len(svgDoc)
    /\ target' = b
    /\ LET from == Chain(svgDoc, target)
           to == Chain(svgDoc, b)
           left == SelectSeq(from, LAMBDA n : n \notin Members(to))
           entered == Reverse(SelectSeq(to, LAMBDA n : n \notin Members(from)))
       IN  pending' = Runs("mouseleave", left, pt) \o Runs("mouseenter", entered, pt)
                      \o Runs("mousemove", to, pt)
    /\ UNCHANGED <<page, constructed, listeners, viewer, stations, loads, history, calls>>
    /\ UNCHANGED <<utilities, graphic, radius, fill, tooltip, labelled, notified, fullscreen>>

\* a click on the node under the pointer; it bubbles
StationClick ==
    /\ mapObject
    /\ pending = <<>>
    /\ target # 0
    /\ pending' = Runs("click", Chain(svgDoc, target), [x |-> 0, y |-> 0])
    /\ UNCHANGED <<page, constructed, listeners, viewer, stations, loads, history, calls>>
    /\ UNCHANGED <<utilities, graphic, target, radius, fill, tooltip, labelled, notified, fullscreen>>

\* the next listener run of the motion or click in progress
Dispatch ==
    /\ pending # <<>>
    /\ pending' = Tail(pending)
    /\ LET e == Head(pending)
       IN  CASE e.type = "mouseenter" ->
                    mouseenterListener(e) /\ Handled("showStationTooltip")
             [] e.type = "mouseleave" ->
                    mouseleaveListener(e) /\ Handled("hideTooltip")
             [] e.type = "mousemove" ->
                    mousemoveListener(e) /\ Handled("updateTooltipPosition")
             [] e.type = "click" ->
                    clickListener(e) /\ Handled("handleStationClick")
    /\ UNCHANGED <<page, constructed, listeners, viewer, stations, loads, history>>
    /\ UNCHANGED <<utilities, graphic, target, fullscreen>>

\* a page holding every element but perhaps the tooltip, around any of the
\* graphics
InitStations ==
    /\ mapWrapper = TRUE
    /\ mapObject = TRUE
    /\ controls = ControlIds
    /\ tooltipEl \in BOOLEAN
    /\ \E doc \in Documents : Page(doc)
    /\ Utilities(searchWait, scrollLimit)

NextStations ==
    \/ Construct
    \/ \E doc \in ContentDocuments : Load(doc)
    \/ \E b \in 0..Len(MrtMap), pt \in StationPoints : StationPointer(b, pt)
    \/ StationClick
    \/ Dispatch

SpecStations == InitStations /\ [][NextStations]_vars


\* ------------------------------------------------------------ full screen

\* a click on the fullscreen button
FullscreenClick ==
    /\ constructed
    /\ fullscreenBtn
    /\ IF "fullscreen" \in listeners
       THEN toggleFullscreen /\ Handled("toggleFullscreen")
       ELSE UNCHANGED fullscreen /\ Ignored
    /\ UNCHANGED <<page, constructed, listeners, viewer, stations, loads, history>>
    /\ UNCHANGED <<utilities, graphic, hover>>

\* the host answers requestFullscreen(): it enters full screen, or refuses
HostEnters ==
    /\ fsPending = "enter"
    /\ fsElement' = TRUE
    /\ fsPending' = "none"
    /\ UNCHANGED <<fsClass, fsIcon, fsRefused>>
    /\ UNCHANGED <<page, constructed, listeners, viewer, stations, loads, history, calls>>
    /\ UNCHANGED <<utilities, graphic, hover>>

HostRefuses ==
    /\ fsPending = "enter"
    /\ fsPending' = "none"
    /\ fsRefused' = TRUE
    /\ UNCHANGED <<fsElement, fsClass, fsIcon>>
    /\ UNCHANGED <<page, constructed, listeners, viewer, stations, loads, history, calls>>
    /\ UNCHANGED <<utilities, graphic, hover>>

\* the host answers exitFullscreen()
HostExits ==
    /\ fsPending = "exit"
    /\ fsElement' = FALSE
    /\ fsPending' = "none"
    /\ UNCHANGED <<fsClass, fsIcon, fsRefused>>
    /\ UNCHANGED <<page, constructed, listeners, viewer, stations, loads, history, calls>>
    /\ UNCHANGED <<utilities, graphic, hover>>

\* the host leaves full screen on its own (the user presses Esc); no
\* listener of the viewer hears of it
HostEscape ==
    /\ fsElement
    /\ fsElement' = FALSE
    /\ fsPending' = IF fsPending = "exit" THEN "none" ELSE fsPending
    /\ UNCHANGED <<fsClass, fsIcon, fsRefused>>
    /\ UNCHANGED <<page, constructed, listeners, viewer, stations, loads, history, calls>>
    /\ UNCHANGED <<utilities, graphic, hover>>

NextFullscreen ==
    \/ Construct
    \/ FullscreenClick
    \/ HostEnters
    \/ HostRefuses
    \/ HostExits
    \/ HostEscape
    \/ \E c \in ControlIds : Click(c)

SpecFullscreen == Init /\ [][NextFullscreen]_vars


\* ------------------------------------------------------------ utilities

\* the values typed into the search input, and the waits / limits wrappers
\* are made with
Queries == {"mrt", "bus"}
Delays == 1..MaxDelay

\* setTimeout(callback, delay): the timer the host adds, due delay from now
setTimeout(callback, delay, args) ==
    [id |-> host.nextId, due |-> host.clock + delay, callback |-> callback, args |-> args]

\* clearTimeout(id): the timers left; an id that is undefined or has fired
\* clears nothing
clearTimeout(timers, id) == {t \in timers : t.id # id}

\* fault variant of executedFunction: the clearTimeout before setTimeout is missing
executedFunction_noClear(q) ==
    LET timer == setTimeout("later", debounced.wait, q)
    IN  /\ host' = [host EXCEPT !.timers = @ \cup {timer}, !.nextId = @ + 1]
        /\ debounced' = [debounced EXCEPT
                !.timeout = timer.id,
                !.called = TRUE, !.calledAt = host.clock, !.calledWith = q,
                !.burst = IF debounced.called /\ debounced.runs = 0 THEN @ + 1 ELSE 1,
                !.runs = 0]

\* executedFunction(...args), the wrapper debounce returns, called with q
executedFunction(q) ==
    LET timer == setTimeout("later", debounced.wait, q)
    IN  /\ host' = [host EXCEPT
                !.timers = clearTimeout(@, debounced.timeout) \cup {timer},
                !.nextId = @ + 1]
        /\ debounced' = [debounced EXCEPT
                !.timeout = timer.id,
                !.called = TRUE, !.calledAt = host.clock, !.calledWith = q,
                !.burst = IF debounced.called /\ debounced.runs = 0 THEN @ + 1 ELSE 1,
                !.runs = 0]

\* later(), run by the timer t that fires: clearTimeout(timeout), func(...args)
later(t) ==
    /\ host' = [host EXCEPT !.timers = clearTimeout(@ \ {t}, debounced.timeout)]
    /\ debounced' = [debounced EXCEPT
            !.runs = @ + 1, !.ranAt = host.clock, !.ranWith = t.args]

\* fault variant of throttledFunction: inThrottle is never set
throttledFunction_noWindow ==
    IF ~throttled.inThrottle
    THEN /\ host' = [host EXCEPT
                !.timers = @ \cup {setTimeout("reset", throttled.limit, "")},
                !.nextId = @ + 1]
         /\ throttled' = [throttled EXCEPT
                !.runs = @ + 1, !.ranAt = host.clock, !.dropped = FALSE]
    ELSE /\ throttled' = [throttled EXCEPT !.dropped = TRUE]
         /\ UNCHANGED host

\* the wrapper throttle returns
throttledFunction ==
    IF ~throttled.inThrottle
    THEN /\ host' = [host EXCEPT
                !.timers = @ \cup {setTimeout("reset", throttled.limit, "")},
                !.nextId = @ + 1]
         /\ throttled' = [throttled EXCEPT
                !.inThrottle = TRUE,
                !.runs = @ + 1, !.ranAt = host.clock, !.dropped = FALSE]
    ELSE /\ throttled' = [throttled EXCEPT !.dropped = TRUE]
         /\ UNCHANGED host

\* () => inThrottle = false, run by the timer t that fires
reset(t) ==
    /\ host' = [host EXCEPT !.timers = @ \ {t}]
    /\ throttled' = [throttled EXCEPT !.inThrottle = FALSE]

\* what the utilities leave alone
viewerPage == <<page, constructed, listeners, viewer, stations, loads, history,
                calls, graphic, hover, fullscreen>>

\* an input event of the search input: searchHandler(e.target.value)
SearchInput(q) ==
    /\ host.nextId <= MaxTimers
    /\ executedFunction(q)
    /\ UNCHANGED <<throttled, viewerPage>>

\* a scroll event: scrollHandler()
Scroll ==
    /\ throttled.inThrottle \/ host.nextId <= MaxTimers
    /\ throttledFunction
    /\ UNCHANGED <<debounced, viewerPage>>

\* 100 ms pass
Tick ==
    /\ host.clock < MaxTime
    /\ host' = [host EXCEPT !.clock = @ + 1]
    /\ UNCHANGED <<debounced, throttled, viewerPage>>

\* the host runs the callback of a timer that is due
Fire ==
    \E t \in host.timers :
        /\ host.clock >= t.due
        /\ IF t.callback = "later"
           THEN later(t) /\ UNCHANGED throttled
           ELSE reset(t) /\ UNCHANGED debounced
        /\ UNCHANGED viewerPage

\* wrappers made with any wait and limit, on a page holding every element
InitUtilities ==
    /\ mapWrapper = TRUE
    /\ mapObject = TRUE
    /\ controls = ControlIds
    /\ tooltipEl = TRUE
    /\ Page(PlainMarker)
    /\ \E wait \in Delays, limit \in Delays : Utilities(wait, limit)

NextUtilities ==
    \/ \E q \in Queries : SearchInput(q)
    \/ Scroll
    \/ Tick
    \/ Fire

SpecUtilities == InitUtilities /\ [][NextUtilities]_vars

\* ------------------------------------------------------------ claims

\* C1: in every reachable state, whatever the sequence of zoomIn, zoomOut,
\* resetZoom, wheel, startPan, pan and endPan, minScale <= scale <= maxScale
C1_ScaleWithinBounds == minScale <= scale /\ scale <= maxScale

\* a zoomIn that arrived at maxScale on a panned view
C1_Witness == lastCall = "zoomIn" /\ scale = maxScale /\ translateX # 0

\* C2: each zoomIn sets scale to min(scale + 0.2, maxScale), each zoomOut to
\* max(scale - 0.2, minScale); at the bound the call changes neither scale,
\* translate nor the applied transform
C2_ZoomStep ==
    [][/\ lastCall' = "zoomIn" =>
            /\ scale' = Min(scale + zoomStep, maxScale)
            /\ scale = maxScale =>
                   UNCHANGED <<scale, translateX, translateY, transform>>
       /\ lastCall' = "zoomOut" =>
            /\ scale' = Max(scale - zoomStep, minScale)
            /\ scale = minScale =>
                   UNCHANGED <<scale, translateX, translateY, transform>>]_vars

\* a zoomOut that was clamped to minScale and applied
C2_Witness ==
    lastCall = "zoomOut" /\ scale = minScale /\ transform.set /\ transform.scale = minScale

\* C3 as stated: from every reachable scale other than minScale and maxScale,
\* zoomIn then zoomOut returns to the scale it started from
C3_RoundTripOffBounds ==
    (scale # minScale /\ scale # maxScale) =>
        zoomOutScale(zoomInScale(scale)) = scale

\* C3, amended: from every reachable scale at which zoomIn is not clamped
\* (scale + 0.2 <= maxScale, minScale included), zoomIn then zoomOut returns
\* to the scale it started from
C3_RoundTripUnclamped ==
    scale + zoomStep <= maxScale =>
        zoomOutScale(zoomInScale(scale)) = scale

\* the round trip from minScale, reached by a clamped zoomOut
C3_Witness ==
    /\ lastCall = "zoomOut"
    /\ scale = minScale
    /\ zoomInScale(scale) = minScale + zoomStep
    /\ zoomOutScale(zoomInScale(scale)) = minScale


\* C4: resetZoom succeeds from any state and leaves scale = 1, translateX = 0,
\* translateY = 0
C4_ResetZoom ==
    lastCall = "resetZoom" =>
        scale = initialScale /\ translateX = 0 /\ translateY = 0 /\ ~threw

\* a reset during an active gesture that had begun on a panned view
C4_Witness ==
    lastCall = "resetZoom" /\ isPanning /\ gesture.tx0 # 0 /\ gesture.ty0 # 0

\* a handler ran pan with the pointer at (x, y) in this step
PanCall(x, y) ==
    \E t \in {"mousemove", "touchmove"} : t \in listeners /\ PointerMove(t, x, y)

\* C5: while a gesture begun by startPan at pointer (x0, y0) and translate
\* (tx0, ty0) is active, the anchor is (x0 - tx0, y0 - ty0) and every pan at
\* pointer (x, y) sets translate to (tx0 + x - x0, ty0 + y - y0)
C5_PanFollowsPointer ==
    /\ [](isPanning => /\ startX = gesture.x0 - gesture.tx0
                       /\ startY = gesture.y0 - gesture.ty0)
    /\ [][(isPanning /\ lastCall' = "pan") =>
            \A x \in PointerXs, y \in PointerYs :
                PanCall(x, y) =>
                    /\ translateX' = x - startX
                    /\ translateY' = y - startY
                    /\ translateX' = gesture.tx0 + x - gesture.x0
                    /\ translateY' = gesture.ty0 + y - gesture.y0]_vars

\* startPan(100,100) then pan(150,120) from translate (0,0)
C5_Witness ==
    /\ lastCall = "pan"
    /\ isPanning
    /\ gesture = [x0 |-> 100, y0 |-> 100, tx0 |-> 0, ty0 |-> 0]
    /\ translateX = 50
    /\ translateY = 20

\* C6: the gesture is active exactly when the most recent begin/end event the
\* viewer received (mousedown, touchstart / mouseup, mouseleave, touchend)
\* was a pointer-down; it is Idle before any of them
C6_GestureStateMachine == isPanning <=> lastGesture = "down"

\* still Panning after a pointer-move that moved the view
C6_Witness ==
    lastCall = "pan" /\ lastGesture = "down" /\ isPanning /\ translateX # gesture.tx0

\* C7: a pointer-move handled while the gesture is Idle leaves translateX,
\* translateY, scale and the applied transform unchanged
C7_IdlePanNoOp ==
    [][(lastCall' = "pan" /\ ~isPanning) =>
            UNCHANGED <<translateX, translateY, scale, transform>>]_vars

\* a pointer-move handled in Idle, on a view an earlier gesture had panned
C7_Witness ==
    lastCall = "pan" /\ ~isPanning /\ lastGesture = "end" /\ translateX # 0

\* C8: endPan, in any state, raises no error, leaves the gesture Idle and
\* translateX, translateY and scale unchanged; called when already Idle it
\* changes nothing
C8_EndPanIdempotent ==
    [][lastCall' = "endPan" =>
            /\ ~isPanning' /\ ~grabbing' /\ ~threw'
            /\ UNCHANGED <<translateX, translateY, scale>>
            /\ ~isPanning => UNCHANGED viewer]_vars

\* an endPan with no startPan before it (the anchor was never set)
C8_Witness ==
    lastCall = "endPan" /\ lastGesture = "end" /\ ~isPanning /\ startX = 0 /\ startY = 0

\* C9: with the container or the graphic absent the viewer is inert: no
\* listener is registered, nothing throws, and whatever events fire the state
\* stays scale 1, translate (0,0), Idle, with no station setup
C9_InertViewer ==
    (~mapWrapper \/ ~mapObject) =>
        /\ listeners = {}
        /\ scale = initialScale /\ translateX = 0 /\ translateY = 0
        /\ ~isPanning /\ ~grabbing /\ transform = NoTransform
        /\ setupRuns = 0 /\ stationPasses = 0
        /\ lastCall = "none"
        /\ ~threw

\* a constructed viewer without the graphic, after events fired on the
\* container or the controls
C9_Witness ==
    constructed /\ mapWrapper /\ ~mapObject /\ controls # {} /\ unhandled

\* C10: station setup runs only in answer to a load event of the graphic:
\* never more runs than load events, none before or during construction
C10_SetupAfterLoad ==
    /\ setupRuns <= loads
    /\ stationPasses <= setupRuns
    /\ (~constructed \/ lastCall = "none") => setupRuns = 0

\* a load event after construction, answered by a setup run
C10_Witness ==
    constructed /\ loads = 1 /\ setupRuns = 1 /\ stationPasses = 1

\* C11: a station setup that finds the embedded document inaccessible (null,
\* or an access that throws) lets no error escape, attaches nothing and
\* leaves scale, translate, gesture, transform and listeners as they were;
\* in every later state the viewer's listeners are still registered and
\* zoomIn, zoomOut, resetZoom and pan still do what they do
C11_InaccessibleDocument ==
    /\ [](setupRuns > stationPasses =>
            /\ ~threw
            /\ {"load"} \cup ControlListeners \cup WrapperListeners \subseteq listeners)
    /\ [][(setupRuns' = setupRuns + 1 /\ stationPasses' = stationPasses) =>
            UNCHANGED <<fields, threw, wired, listeners>>]_vars
    /\ [][setupRuns > stationPasses =>
            /\ lastCall' = "zoomIn" => scale' = Min(scale + zoomStep, maxScale)
            /\ lastCall' = "zoomOut" => scale' = Max(scale - zoomStep, minScale)
            /\ lastCall' = "resetZoom" =>
                    scale' = initialScale /\ translateX' = 0 /\ translateY' = 0
            /\ (isPanning /\ lastCall' = "pan") =>
                    /\ translateX' \in {x - startX : x \in PointerXs}
                    /\ translateY' \in {y - startY : y \in PointerYs}]_vars

\* a pan that moved a zoomed view after a setup had aborted
C11_Witness ==
    /\ setupRuns = 1 /\ stationPasses = 0
    /\ lastCall = "pan" /\ translateX # 0 /\ scale # initialScale /\ ~threw

\* C12 as stated (checked, as C13, C14, C15 and C19, under SpecStations): once the listener runs of a motion are done, a wired
\* circular marker has its original radius and no recolor whenever the
\* pointer is not over it, and 1.5 times its original radius while the
\* pointer is over it and the marker is recoloured
C12_HoverRoundTrip ==
    \A n \in DOMAIN svgDoc :
        (svgDoc[n].tag = "circle" /\ wired[n] > 0 /\ pending = <<>>) =>
            /\ n \notin Over => (radius[n] = svgDoc[n].r /\ fill[n] = "")
            /\ (n \in Over /\ fill[n] # "") => radius[n] = times15(svgDoc[n].r)

\* the word station, in any letter case, at position i of s
C13_StationAt(s, i) ==
    /\ i + 6 <= Len(s)
    /\ s[i] \in {"s", "S"} /\ s[i + 1] \in {"t", "T"} /\ s[i + 2] \in {"a", "A"}
    /\ s[i + 3] \in {"t", "T"} /\ s[i + 4] \in {"i", "I"} /\ s[i + 5] \in {"o", "O"}
    /\ s[i + 6] \in {"n", "N"}

\* s from position i on, every occurrence of station left out and every
\* underscore turned into a space
RECURSIVE C13_Stripped(_, _)
C13_Stripped(s, i) ==
    IF i > Len(s) THEN <<>>
    ELSE IF C13_StationAt(s, i) THEN C13_Stripped(s, i + 7)
    ELSE <<IF s[i] = "_" THEN " " ELSE s[i]>> \o C13_Stripped(s, i + 1)

\* the display label of a node: from its id, else its title, else its text
C13_Label(node) ==
    LET source == IF node.id # <<>> THEN node.id
                  ELSE IF node.title # <<>> THEN node.title
                  ELSE node.text
        t == C13_Stripped(source, 1)
        inked == {i \in DOMAIN t : t[i] \notin Whitespace}
        first == CHOOSE i \in inked : \A j \in inked : i <= j
        last == CHOOSE i \in inked : \A j \in inked : j <= i
    IN  IF inked = {} THEN <<>> ELSE SubSeq(t, first, last)

\* C13: the text showStationTooltip last wrote into the tooltip is the display
\* label of the node it was shown for: its id (else title, else text) with
\* every underscore a space, every station in any letter case removed, and
\* the surrounding whitespace trimmed; Raffles_Place_Station gives
\* Raffles Place
C13_TooltipLabel ==
    labelled # 0 =>
        /\ tooltip.text = C13_Label(svgDoc[labelled])
        /\ svgDoc[labelled].id = sRafflesPlace \o <<"_">> \o StationLiteral =>
                tooltip.text = <<"R", "a", "f", "f", "l", "e", "s", " ",
                                 "P", "l", "a", "c", "e">>

\* the tooltip showing Raffles Place for the node Raffles_Place_Station
C13_Witness ==
    /\ labelled # 0 /\ tooltip.visible
    /\ svgDoc[labelled].id = sRafflesPlace \o <<"_">> \o StationLiteral
    /\ Len(tooltip.text) = 13

\* C14 as stated: the name the click notification shows for a node is the
\* label hover-enter puts in the tooltip for that node
C14_ClickLabelIsTooltipLabel ==
    notified.node # 0 => notified.text = tooltipName(svgDoc[notified.node])

\* C15 as stated: after a station setup that reached the document, the wired
\* nodes are the circles, the texts and the groups whose id contains station
\* in any letter case, and no other node
C15_WiredNodes ==
    stationPasses > 0 =>
        \A n \in DOMAIN svgDoc :
            wired[n] > 0 <=>
                \/ svgDoc[n].tag \in {"circle", "text"}
                \/ /\ svgDoc[n].tag = "g"
                   /\ \E i \in 1..Len(svgDoc[n].id) : C13_StationAt(svgDoc[n].id, i)

\* C16: the transform applied to the graphic reflects the viewer state: every
\* step that changes scale, translateX or translateY leaves the transform
\* translate(translateX, translateY) scale(scale) of the new values, and in
\* every reachable state the transform is that of the stored values, or is
\* still unset while they are the identity (scale 1, translate (0,0))
C16_TransformReflectsState ==
    /\ [](IF transform.set
          THEN transform = [set |-> TRUE, translateX |-> translateX,
                            translateY |-> translateY, scale |-> scale]
          ELSE scale = initialScale /\ translateX = 0 /\ translateY = 0)
    /\ [][<<scale, translateX, translateY>>' # <<scale, translateX, translateY>> =>
            transform' = [set |-> TRUE, translateX |-> translateX',
                          translateY |-> translateY', scale |-> scale']]_vars

\* a pan applied to a view zoomed to maxScale
C16_Witness ==
    /\ lastCall = "pan" /\ transform.set
    /\ transform.scale = maxScale /\ transform.translateX = 50 /\ transform.translateY = 20

\* C17 as stated: once the host has answered the viewer's last request, and
\* it never refused one, the icon shows compress and the container carries
\* the fullscreen class exactly when the host is in full screen
C17_IconTracksFullscreen ==
    (fsPending = "none" /\ ~fsRefused) =>
        /\ fsIcon = "fa-compress" <=> fsElement
        /\ fsClass <=> fsElement

\* C18 as stated, in its finite form: once the graphic has fired its load
\* event and the viewer is constructed on a page holding container and
\* graphic, station setup has been invoked, whichever of the two came first
C18_SetupOnceLoaded ==
    (mapWrapper /\ mapObject /\ constructed /\ loads > 0) => setupRuns > 0

\* C19 as stated, for the states in which a hover-enter has reached a wired
\* station and the listener runs of the last motion are done: with a tooltip
\* element, the tooltip is visible exactly when the pointer is over at least
\* one wired node
C19_TooltipIffOverStation ==
    (tooltipEl /\ stationPasses > 0 /\ labelled # 0 /\ pending = <<>>) =>
        (tooltip.visible <=> \E n \in Over : wired[n] > 0)

\* C20: zoomIn and zoomOut (from a control or the wheel) leave translateX,
\* translateY, isPanning and the anchor unchanged; resetZoom leaves isPanning
\* and the anchor unchanged; startPan, pan and endPan leave scale unchanged;
\* startPan and endPan leave translateX and translateY unchanged
C20_ZoomGestureIndependent ==
    [][/\ lastCall' \in {"zoomIn", "zoomOut"} =>
            UNCHANGED <<translateX, translateY, isPanning, startX, startY>>
       /\ lastCall' = "resetZoom" => UNCHANGED <<isPanning, startX, startY>>
       /\ lastCall' \in {"startPan", "pan", "endPan"} => UNCHANGED scale
       /\ lastCall' \in {"startPan", "endPan"} =>
            UNCHANGED <<translateX, translateY>>]_vars

\* a zoomIn in the middle of a gesture that had panned the view
C20_Witness ==
    /\ lastCall = "zoomIn" /\ isPanning
    /\ translateX # 0 /\ translateX # gesture.tx0 /\ scale < maxScale

\* the later timers the host holds
C21_Pending == {t \in host.timers : t.callback = "later"}

\* C21: func runs only once wait has elapsed since the most recent call of
\* the wrapper, with that call's arguments, and at most once per call; a call
\* that arrives less than wait after the previous one finds that func has
\* not run in between; and until func runs, exactly one timer is pending,
\* due wait after the most recent call and carrying its arguments, so a
\* burst ends in exactly one run, after the last call, with the last
\* arguments
C21_Debounce ==
    /\ [](debounced.runs <= 1)
    /\ []((debounced.called /\ debounced.runs = 0) =>
            C21_Pending = {[id |-> debounced.timeout,
                            due |-> debounced.calledAt + debounced.wait,
                            callback |-> "later",
                            args |-> debounced.calledWith]})
    /\ []((~debounced.called \/ debounced.runs > 0) => C21_Pending = {})
    /\ [][debounced'.runs = debounced.runs + 1 =>
            /\ debounced.called
            /\ host.clock >= debounced.calledAt + debounced.wait
            /\ debounced'.ranWith = debounced.calledWith]_vars
    /\ [][(/\ debounced'.timeout # debounced.timeout
           /\ debounced.called
           /\ host.clock < debounced.calledAt + debounced.wait) =>
                (debounced.runs = 0 /\ debounced'.burst = debounced.burst + 1)]_vars

\* a burst of two calls less than wait apart, and the one run it ended in,
\* wait after the second call and with its arguments
C21_Witness ==
    /\ debounced.burst = 2 /\ debounced.runs = 1
    /\ 0 < debounced.calledAt /\ debounced.calledAt < debounced.wait
    /\ debounced.ranAt = debounced.calledAt + debounced.wait
    /\ debounced.ranWith = "bus" /\ debounced.calledWith = "bus"

\* the reset timers the host holds
C22_Pending == {t \in host.timers : t.callback = "reset"}

\* C22: a call made while no window is open runs func at once and opens a
\* window; while the window is open func never runs, whatever is called,
\* and nothing is kept to run later; the window is open exactly while its
\* one reset timer is pending, due limit after the run, and it reopens no
\* sooner; so two runs are never less than limit apart
C22_Throttle ==
    /\ [](IF throttled.inThrottle
          THEN \E t \in C22_Pending :
                  /\ C22_Pending = {t}
                  /\ t.due = throttled.ranAt + throttled.limit
          ELSE C22_Pending = {})
    /\ [][(~throttled.inThrottle /\ throttled' # throttled) =>
            /\ throttled'.inThrottle
            /\ throttled'.runs = throttled.runs + 1
            /\ throttled'.ranAt = host.clock
            /\ throttled.runs > 0 =>
                    host.clock >= throttled.ranAt + throttled.limit]_vars
    /\ [][throttled.inThrottle =>
            /\ throttled'.runs = throttled.runs
            /\ throttled'.ranAt = throttled.ranAt
            /\ ~throttled'.inThrottle =>
                    host.clock >= throttled.ranAt + throttled.limit]_vars

\* a second run, limit or more after the first, whose window has dropped a call
C22_Witness ==
    /\ throttled.runs = 2 /\ throttled.inThrottle /\ throttled.dropped
    /\ throttled.ranAt >= throttled.limit

====
